---- MODULE Spec2Model ----
(***************************************************************************)
(* Model of src/ai-service/main.py: the CloudMetricsPredictor (feature     *)
(* preparation and the three prediction functions), the DigitalTwinEngine  *)
(* (twin store, create_twin, update_twin, store_twin_data) and the HTTP    *)
(* handlers predict_metrics, create_digital_twin, update_digital_twin and  *)
(* get_digital_twin, together with the Redis cache and the InfluxDB write  *)
(* API they call.                                                          *)
(*                                                                         *)
(* Numbers.  Python floats are modelled by exact fixed-point integers:     *)
(* feature values, model outputs and costs are counted in thousandths      *)
(* (Milli = 1.0), accuracies and confidences in millionths (Micro = 1.0),  *)
(* so that a random draw in thousandths times 0.2 is exact.  Quotients     *)
(* that are not exact in these units are kept as fractions [num, den].     *)
(***************************************************************************)
EXTENDS Integers, Sequences, FiniteSets, TLC

VARIABLES
    twins,      \* DigitalTwinEngine.twins: dict resource_id -> DigitalTwinState
    redis,      \* the Redis key space: dict key -> stored string
    influx,     \* points handed to write_api.write by the running/last update
    pc,         \* position of the request handler being executed
    call,       \* the request being served: arguments, what it found, loop index
    outcome,    \* what the last finished handler gave back to its caller
    invoked,    \* models whose predict() ran during the running/last call
    params,     \* the outputs fixed by the weights create_models() built
    ncalls      \* number of requests accepted so far

vars == <<twins, redis, influx, pc, call, outcome, invoked, params, ncalls>>

----------------------------------------------------------------------------
(* Bounds of the model *)

MaxLen == 11        \* longest metrics list of a predict request
MaxBatch == 2       \* longest metrics list of a twin update, one resource
MaxPairBatch == 1   \* longest metrics list of a twin update, two resources
MaxCalls == 3       \* requests served in the two-resource specification

(* Fixed-point units *)
Milli == 10 ^ 3
Micro == Milli * Milli

(* Program constants *)
WindowSize == 10            \* preprocess_metrics: len(metrics) < 10, metrics[-10:]
FieldsPerSample == 4        \* cpu, memory, disk, network
PercentDivisor == 100       \* metric.cpu/100.0
PerformanceInputWidth == 10 \* Dense(64, input_shape=(10,))
AnomalyInputWidth == 4      \* Dense(32, input_shape=(4,))
CostInputWidth == 8         \* Dense(48, input_shape=(8,))
ConfidenceBase == 850000    \* 0.85
ConfidenceJitter == 100     \* 0.1 (thousandths)
AnomalyThresholdTenths == 1 \* 0.1
AnomalyConfidence == 920000 \* 0.92
CostScale == 100            \* float(cost_prediction[0][0]) * 100
DaysPerMonth == 30
CpuTrendLimit == 70
AccuracyBase == 750000      \* 0.75
AccuracyJitter == 200       \* 0.2 (thousandths)
AccuracyStep == 1000        \* 0.001
AccuracyCap == 990000       \* 0.99
TwinTTL == 3600
PredictionTTL == 300

(* Input domains *)
Resources == {"r1", "r2"}
PredictionTypes == {"performance", "anomaly", "cost"}
RequestTypes == PredictionTypes \cup {"latency"}
RandomDraws == {0, 999}     \* np.random.random() in thousandths, in [0, 1)
InitialStates == { [status |-> "active"], [status |-> "provisioning"] }
DefaultState == [status |-> "active"]

Samples ==
    { [timestamp |-> 1, resource_id |-> "r1",
       cpu |-> 80, memory |-> 60, disk |-> 40, network |-> 20],
      [timestamp |-> 2, resource_id |-> "r1",
       cpu |-> 10, memory |-> 30, disk |-> 50, network |-> 70] }

SeqsUpTo(S, n) == UNION { [1..k -> S] : k \in 0..n }

DefaultParams ==
    [performance |-> <<500, 500, 500, 500>>,
     anomaly |-> <<500, 500, 500, 500>>, cost |-> <<250>>]

ParamChoices ==
    { DefaultParams,
      [performance |-> <<100, 900, 100, 900>>,
       anomaly |-> <<50, 50, 50, 50>>, cost |-> <<-100>>] }

----------------------------------------------------------------------------
(* Python values *)

None == [py |-> "None"]
Rat(n, d) == [num |-> n, den |-> d]
NumpyBool(b) == [dtype |-> "bool_", item |-> b]   \* result of np.float64 > float
Max(a, b) == IF a >= b THEN a ELSE b
Min(a, b) == IF a <= b THEN a ELSE b

RECURSIVE SumOf(_, _)
SumOf(ms, field) ==
    IF ms = <<>> THEN 0 ELSE Head(ms)[field] + SumOf(Tail(ms), field)

(* A float taken as it is, and a float divided by 100.0, in thousandths. *)
Raw(x) == x * Milli
Normalized(x) == (x * Milli) \div PercentDivisor

----------------------------------------------------------------------------
(* The Keras models.  A Sequential model built with input_shape=(w,)       *)
(* raises on a batch whose last axis is not w; otherwise predict returns   *)
(* the output row its weights give.                                        *)

InputWidth ==
    [performance |-> PerformanceInputWidth,
     anomaly |-> AnomalyInputWidth,
     cost |-> CostInputWidth]

ModelPredict(p, name, x) ==
    IF Len(x) # InputWidth[name]
    THEN [raised |-> TRUE, value |-> <<>>]
    ELSE [raised |-> FALSE, value |-> p[name]]

----------------------------------------------------------------------------
(* CloudMetricsPredictor *)

(* padding_needed times [0.0, 0.0, 0.0, 0.0] *)
ZeroPadding(k) == [i \in 1..(FieldsPerSample * k) |-> 0]

RECURSIVE ExtendRaw(_)
ExtendRaw(ms) ==
    IF ms = <<>> THEN <<>>
    ELSE <<Raw(Head(ms).cpu), Raw(Head(ms).memory),
           Raw(Head(ms).disk), Raw(Head(ms).network)>> \o ExtendRaw(Tail(ms))

RECURSIVE ExtendNormalized(_)
ExtendNormalized(ms) ==
    IF ms = <<>> THEN <<>>
    ELSE <<Normalized(Head(ms).cpu), Normalized(Head(ms).memory),
           Normalized(Head(ms).disk), Normalized(Head(ms).network)>>
         \o ExtendNormalized(Tail(ms))

LastN(ms, k) == SubSeq(ms, Len(ms) - k + 1, Len(ms))

(* Variant that divides the padded path by 100 as well. *)
preprocess_metrics_normalizing(metrics) ==
    IF Len(metrics) < WindowSize
    THEN ZeroPadding(WindowSize - Len(metrics)) \o ExtendNormalized(metrics)
    ELSE ExtendNormalized(LastN(metrics, WindowSize))

preprocess_metrics(metrics) ==
    IF Len(metrics) < WindowSize
    THEN ZeroPadding(WindowSize - Len(metrics)) \o ExtendRaw(metrics)
    ELSE ExtendNormalized(LastN(metrics, WindowSize))

Confidence(r) == ConfidenceBase + r * ConfidenceJitter

predict_performance(p, metrics, r) ==
    LET processed_data == preprocess_metrics(metrics)
        prediction == ModelPredict(p, "performance", processed_data)
    IN  IF prediction.raised
        THEN [result |-> [error |-> "incompatible input shape"],
              invoked |-> <<"performance">>]
        ELSE [result |->
                [predicted_cpu |-> prediction.value[1] * 100,
                 predicted_memory |-> prediction.value[2] * 100,
                 predicted_disk |-> prediction.value[3] * 100,
                 predicted_network |-> prediction.value[4] * 100,
                 confidence |-> Confidence(r),
                 prediction_horizon |-> "1 hour"],
              invoked |-> <<"performance">>]

SquaredError(x, y) ==
    LET sq(i) == (x[i] - y[i]) * (x[i] - y[i])
    IN  sq(1) + sq(2) + sq(3) + sq(4)

(* lines 154-170: score the latest sample with the autoencoder *)
ScoreLatest(p, metrics) ==
    LET latest_metric == metrics[Len(metrics)]
        input_data == <<Normalized(latest_metric.cpu),
                        Normalized(latest_metric.memory),
                        Normalized(latest_metric.disk),
                        Normalized(latest_metric.network)>>
        reconstruction == ModelPredict(p, "anomaly", input_data)
        total == SquaredError(input_data, reconstruction.value)
    IN  IF reconstruction.raised
        THEN [result |-> [error |-> "incompatible input shape"],
              invoked |-> <<"anomaly">>]
        ELSE [result |->
                [anomaly_score |-> Rat(total, FieldsPerSample * Micro),
                 is_anomaly |-> NumpyBool(
                    total * 10 > AnomalyThresholdTenths * FieldsPerSample * Micro),
                 threshold |-> Rat(AnomalyThresholdTenths, 10),
                 confidence |-> AnomalyConfidence],
              invoked |-> <<"anomaly">>]

(* Variant without the empty-input guard: metrics[-1] raises IndexError,   *)
(* which the except clause turns into an error result.                     *)
detect_anomalies_unguarded(p, metrics) ==
    IF Len(metrics) < 1
    THEN [result |-> [error |-> "list index out of range"], invoked |-> <<>>]
    ELSE ScoreLatest(p, metrics)

detect_anomalies(p, metrics) ==
    IF Len(metrics) < 1
    THEN [result |-> [anomaly_score |-> Rat(0, 1), is_anomaly |-> FALSE],
          invoked |-> <<>>]
    ELSE ScoreLatest(p, metrics)

predict_cost(p, metrics, resource_type) ==
    IF Len(metrics) < 1
    THEN [result |-> [predicted_cost |-> 0], invoked |-> <<>>]
    ELSE LET n == Len(metrics)
             sum_cpu == SumOf(metrics, "cpu")
             sum_memory == SumOf(metrics, "memory")
             sum_disk == SumOf(metrics, "disk")
             sum_network == SumOf(metrics, "network")
             flag(t) == IF resource_type = t THEN Rat(1, 1) ELSE Rat(0, 1)
             features == <<Rat(sum_cpu, n * PercentDivisor),
                           Rat(sum_memory, n * PercentDivisor),
                           Rat(sum_disk, n * PercentDivisor),
                           Rat(sum_network, n * PercentDivisor),
                           Rat(n, 1),
                           flag("compute"), flag("database"), flag("storage")>>
             cost_prediction == ModelPredict(p, "cost", features)
             base_cost == cost_prediction.value[1] * CostScale
         IN  IF cost_prediction.raised
             THEN [result |-> [error |-> "incompatible input shape"],
                   invoked |-> <<"cost">>]
             ELSE [result |->
                     [predicted_daily_cost |-> base_cost,
                      predicted_monthly_cost |-> base_cost * DaysPerMonth,
                      cost_trend |-> IF sum_cpu > CpuTrendLimit * n
                                     THEN "increasing" ELSE "stable",
                      optimization_potential |->
                         Rat(Max(0, (100 * n - sum_cpu) * base_cost), 100 * n)],
                   invoked |-> <<"cost">>]

----------------------------------------------------------------------------
(* JSON and the Redis cache *)

(* json.dumps gives a string from which json.loads gives the dict back;    *)
(* it raises TypeError on a numpy.bool_, which the scored anomaly result   *)
(* carries in is_anomaly.                                                  *)
json_dumps(d) == [json |-> d]
json_loads(s) == s.json
JsonSerializable(result) ==
    ~("is_anomaly" \in DOMAIN result /\ "threshold" \in DOMAIN result)

TwinKey(resource_id) == <<"twin", resource_id>>
PredictionKey(resource_id, prediction_type) ==
    <<"prediction", resource_id, prediction_type>>

setex(store, key, ttl, value) == (key :> [ttl |-> ttl, value |-> value]) @@ store
DictSet(d, k, v) == (k :> v) @@ d
DictDel(d, k) == [x \in DOMAIN d \ {k} |-> d[x]]

Returned(op, v) == [op |-> op, kind |-> "return", status |-> 200, value |-> v]
Raised(op, status) == [op |-> op, kind |-> "raise", status |-> status, value |-> None]
NoOutcome == [op |-> "none", kind |-> "none", status |-> 0, value |-> None]

----------------------------------------------------------------------------
(* DigitalTwinEngine *)

AccuracySeed(r) == AccuracyBase + r * AccuracyJitter

DigitalTwinState(resource_id, state, accuracy) ==
    [resource_id |-> resource_id, state |-> state,
     predictions |-> None, accuracy |-> accuracy]

(* Variant that merges into an existing twin instead of replacing it. *)
create_twin_merging(store, cache, resource_id, initial_state, r, cacheOk) ==
    LET fresh == DigitalTwinState(resource_id, initial_state, AccuracySeed(r))
        twin == IF resource_id \in DOMAIN store
                THEN [fresh EXCEPT !.predictions = store[resource_id].predictions]
                ELSE fresh
    IN  [twins |-> DictSet(store, resource_id, twin),
         redis |-> IF cacheOk
                   THEN setex(cache, TwinKey(resource_id), TwinTTL, json_dumps(twin))
                   ELSE cache,
         raised |-> ~cacheOk,
         twin |-> twin]

(* create_twin: the twin is put in the store before the cache is written,  *)
(* so a raising setex leaves the new twin stored.                          *)
create_twin(store, cache, resource_id, initial_state, r, cacheOk) ==
    LET twin == DigitalTwinState(resource_id, initial_state, AccuracySeed(r))
    IN  [twins |-> DictSet(store, resource_id, twin),
         redis |-> IF cacheOk
                   THEN setex(cache, TwinKey(resource_id), TwinTTL, json_dumps(twin))
                   ELSE cache,
         raised |-> ~cacheOk,
         twin |-> twin]

(* Variant without the 0.99 cap. *)
NextAccuracyUncapped(accuracy) == accuracy + AccuracyStep

NextAccuracy(accuracy) == Min(AccuracyCap, accuracy + AccuracyStep)

Predictions(p, metrics, r) ==
    LET performance == predict_performance(p, metrics, r)
        anomaly == detect_anomalies(p, metrics)
        cost == predict_cost(p, metrics, "compute")
    IN  [value |-> [performance |-> performance.result,
                    anomaly |-> anomaly.result,
                    cost |-> cost.result],
         invoked |-> performance.invoked \o anomaly.invoked \o cost.invoked]

Point(twin, metric) ==
    [measurement |-> "digital_twin_metrics",
     resource_id |-> twin.resource_id,
     cpu |-> metric.cpu, memory |-> metric.memory,
     disk |-> metric.disk, network |-> metric.network,
     accuracy |-> twin.accuracy,
     time |-> metric.timestamp]

----------------------------------------------------------------------------
(* Initial state: empty twin store, empty cache, models built. *)

Idle ==
    /\ twins = <<>>
    /\ redis = <<>>
    /\ influx = <<>>
    /\ outcome = NoOutcome
    /\ invoked = <<>>
    /\ ncalls = 0

Init ==
    /\ Idle
    /\ params = DefaultParams
    /\ pc = "idle"
    /\ call = [op |-> "none"]

----------------------------------------------------------------------------
(* POST /digital-twin/create *)

CreateDigitalTwin(resource_id, initial_state, r, cacheOk) ==
    LET c == create_twin(twins, redis, resource_id, initial_state, r, cacheOk)
    IN  /\ pc = "idle"
        /\ call' = [op |-> "create", resource_id |-> resource_id,
                    initial_state |-> initial_state,
                    existed |-> resource_id \in DOMAIN twins,
                    before |-> IF resource_id \in DOMAIN twins
                               THEN twins[resource_id].accuracy ELSE 0,
                    predicted |-> /\ resource_id \in DOMAIN twins
                                  /\ twins[resource_id].predictions # None]
        /\ twins' = c.twins
        /\ redis' = c.redis
        /\ outcome' = IF c.raised THEN Raised("create", 500)
                      ELSE Returned("create", c.twin)
        /\ influx' = <<>>
        /\ invoked' = <<>>
        /\ UNCHANGED <<pc, params>>

(* POST /digital-twin/update, update_twin lines 232-245: auto-provision,   *)
(* the three predictions, then predictions and accuracy set on the twin.   *)
(* A raising cache write in create_twin ends the call before line 235.     *)
UpdateBegin(resource_id, metrics, r, cacheOk) ==
    LET present == resource_id \in DOMAIN twins
        c == create_twin(twins, redis, resource_id, DefaultState, r, cacheOk)
        store == IF present THEN twins ELSE c.twins
        twin == store[resource_id]
    IN  /\ pc = "idle"
        /\ influx' = <<>>
        /\ redis' = IF present THEN redis ELSE c.redis
        /\ call' = [op |-> "update", resource_id |-> resource_id,
                    metrics |-> metrics, existed |-> present,
                    before |-> twin.accuracy, next |-> 1]
        /\ UNCHANGED params
        /\ IF ~present /\ c.raised
           THEN /\ twins' = store
                /\ invoked' = <<>>
                /\ pc' = "idle"
                /\ outcome' = Raised("update", 500)
           ELSE /\ \E predictions \in {Predictions(params, metrics, r)} :
                      /\ twins' = DictSet(store, resource_id,
                            [twin EXCEPT !.predictions = predictions.value,
                                         !.accuracy = NextAccuracy(twin.accuracy)])
                      /\ invoked' = predictions.invoked
                /\ pc' = "update_store"
                /\ outcome' = NoOutcome

(* store_twin_data, line 255: influx_client.write_api(...) inside the try *)
UpdateOpenWriteApi(ok) ==
    /\ pc = "update_store"
    /\ pc' = IF ok /\ call.metrics # <<>> THEN "update_write" ELSE "update_return"
    /\ UNCHANGED <<twins, redis, influx, call, outcome, invoked, params>>

(* Variant in which a raising write is not caught and fails the request. *)
UpdateWriteRaising(ok) ==
    LET twin == twins[call.resource_id]
        metric == call.metrics[call.next]
    IN  /\ pc = "update_write"
        /\ IF ok
           THEN /\ influx' = Append(influx, Point(twin, metric))
                /\ call' = [call EXCEPT !.next = @ + 1]
                /\ pc' = IF call.next = Len(call.metrics)
                         THEN "update_return" ELSE "update_write"
                /\ UNCHANGED outcome
           ELSE /\ pc' = "idle"
                /\ outcome' = Raised("update", 500)
                /\ UNCHANGED <<influx, call>>
        /\ UNCHANGED <<twins, redis, invoked, params>>

(* store_twin_data, lines 257-269: one write per sample; the first write   *)
(* that raises ends the loop in the except clause, which only logs.        *)
UpdateWrite(ok) ==
    LET twin == twins[call.resource_id]
        metric == call.metrics[call.next]
    IN  /\ pc = "update_write"
        /\ IF ok
           THEN /\ influx' = Append(influx, Point(twin, metric))
                /\ call' = [call EXCEPT !.next = @ + 1]
                /\ pc' = IF call.next = Len(call.metrics)
                         THEN "update_return" ELSE "update_write"
           ELSE /\ pc' = "update_return"
                /\ UNCHANGED <<influx, call>>
        /\ UNCHANGED <<twins, redis, outcome, invoked, params>>

(* line 250 and the handler's return twin.dict() *)
UpdateReturn ==
    /\ pc = "update_return"
    /\ outcome' = Returned("update", twins[call.resource_id])
    /\ pc' = "idle"
    /\ UNCHANGED <<twins, redis, influx, call, invoked, params>>

(* GET /digital-twin/{resource_id}: cache first, then the store, else 404 *)
GetDigitalTwin(resource_id, cacheOk) ==
    /\ pc = "idle"
    /\ call' = [op |-> "get", resource_id |-> resource_id]
    /\ outcome' =
         IF ~cacheOk THEN Raised("get", 500)
         ELSE IF TwinKey(resource_id) \in DOMAIN redis
              THEN Returned("get", json_loads(redis[TwinKey(resource_id)].value))
         ELSE IF resource_id \in DOMAIN twins
              THEN Returned("get", twins[resource_id])
         ELSE Raised("get", 404)
    /\ influx' = <<>>
    /\ invoked' = <<>>
    /\ UNCHANGED <<twins, redis, pc, params>>

(* Redis drops a key whose TTL has run out. *)
Expire(key) ==
    /\ pc = "idle"
    /\ key \in DOMAIN redis
    /\ redis' = DictDel(redis, key)
    /\ UNCHANGED <<twins, influx, pc, call, outcome, invoked, params>>

----------------------------------------------------------------------------
(* POST /predict *)

ExceptionClasses == {"HTTPException", "TypeError", "ConnectionError"}

(* The try body of predict_metrics, lines 288-306. *)
PredictBody(p, cache, request, r, cacheOk) ==
    LET t == request.prediction_type
        scored == IF t = "performance" THEN predict_performance(p, request.metrics, r)
                  ELSE IF t = "anomaly" THEN detect_anomalies(p, request.metrics)
                  ELSE predict_cost(p, request.metrics, "compute")
        key == PredictionKey(request.resource_id, t)
    IN  IF t \notin {"performance", "anomaly", "cost"}
        THEN [raised |-> TRUE, exc |-> "HTTPException", status |-> 400,
              value |-> None, invoked |-> <<>>, redis |-> cache]
        ELSE IF ~JsonSerializable(scored.result)
        THEN [raised |-> TRUE, exc |-> "TypeError", status |-> 0,
              value |-> None, invoked |-> scored.invoked, redis |-> cache]
        ELSE IF ~cacheOk
        THEN [raised |-> TRUE, exc |-> "ConnectionError", status |-> 0,
              value |-> None, invoked |-> scored.invoked, redis |-> cache]
        ELSE [raised |-> FALSE, exc |-> "", status |-> 200,
              value |-> [resource_id |-> request.resource_id,
                         prediction_type |-> t,
                         result |-> scored.result],
              invoked |-> scored.invoked,
              redis |-> setex(cache, key, PredictionTTL, json_dumps(scored.result))]

(* except Exception as e: raise HTTPException(status_code=500, ...) *)
PredictExcept(body) ==
    IF body.raised /\ body.exc \in ExceptionClasses
    THEN Raised("predict", 500)
    ELSE IF body.raised THEN Raised("predict", body.status)
    ELSE Returned("predict", body.value)

PredictMetrics(r, cacheOk) ==
    LET body == PredictBody(params, redis, call, r, cacheOk)
    IN  /\ pc = "received"
        /\ pc' = "done"
        /\ outcome' = PredictExcept(body)
        /\ redis' = body.redis
        /\ invoked' = body.invoked
        /\ UNCHANGED <<twins, influx, call, params, ncalls>>

(* Direct calls of the predictor's methods on the received metrics *)
CallPreprocessMetrics ==
    /\ pc = "received"
    /\ pc' = "done"
    /\ outcome' = Returned("preprocess_metrics", preprocess_metrics(call.metrics))
    /\ invoked' = <<>>
    /\ UNCHANGED <<twins, redis, influx, call, params, ncalls>>

CallPredictPerformance(r) ==
    LET res == predict_performance(params, call.metrics, r)
    IN  /\ pc = "received"
        /\ pc' = "done"
        /\ outcome' = Returned("predict_performance", res.result)
        /\ invoked' = res.invoked
        /\ UNCHANGED <<twins, redis, influx, call, params, ncalls>>

CallDetectAnomalies ==
    LET res == detect_anomalies(params, call.metrics)
    IN  /\ pc = "received"
        /\ pc' = "done"
        /\ outcome' = Returned("detect_anomalies", res.result)
        /\ invoked' = res.invoked
        /\ UNCHANGED <<twins, redis, influx, call, params, ncalls>>

CallPredictCost ==
    LET res == predict_cost(params, call.metrics, "compute")
    IN  /\ pc = "received"
        /\ pc' = "done"
        /\ outcome' = Returned("predict_cost", res.result)
        /\ invoked' = res.invoked
        /\ UNCHANGED <<twins, redis, influx, call, params, ncalls>>

----------------------------------------------------------------------------
(* Specifications *)

Batches == SeqsUpTo(Samples, MaxBatch)

(* update_twin draws a random number and writes the cache only when it     *)
(* has to create the twin.                                                 *)
ProvisionInputs(id) ==
    IF id \in DOMAIN twins THEN {<<0, TRUE>>} ELSE RandomDraws \X BOOLEAN
Accept == ncalls < MaxCalls /\ ncalls' = ncalls + 1
Steps ==
    \/ \E ok \in BOOLEAN : UpdateOpenWriteApi(ok)
    \/ \E ok \in BOOLEAN : UpdateWrite(ok)
    \/ UpdateReturn

(* Two resources, MaxCalls requests *)
Create ==
    \E id \in Resources, st \in InitialStates, r \in RandomDraws, ok \in BOOLEAN :
        Accept /\ CreateDigitalTwin(id, st, r, ok)
Update ==
    \E id \in Resources, ms \in SeqsUpTo(Samples, MaxPairBatch) :
        \E in \in ProvisionInputs(id) : Accept /\ UpdateBegin(id, ms, in[1], in[2])
Get == \E id \in Resources, ok \in BOOLEAN : Accept /\ GetDigitalTwin(id, ok)
Evict == \E id \in Resources : Expire(TwinKey(id)) /\ UNCHANGED ncalls
Step == Steps /\ UNCHANGED ncalls

Next == Create \/ Update \/ Get \/ Evict \/ Step

Spec == Init /\ [][Next]_vars

(* The writers of one twin through its whole life, any number of requests *)
Primary == "r1"
LifeCreate ==
    \E st \in InitialStates, r \in RandomDraws, ok \in BOOLEAN :
        CreateDigitalTwin(Primary, st, r, ok) /\ UNCHANGED ncalls
LifeUpdate ==
    \E ms \in Batches :
        \E in \in ProvisionInputs(Primary) :
            UpdateBegin(Primary, ms, in[1], in[2]) /\ UNCHANGED ncalls

NextLife == LifeCreate \/ LifeUpdate \/ Step

SpecLife == Init /\ [][NextLife]_vars

(* All handlers on one twin, with a cache that is always reachable *)
UpCreate ==
    \E st \in InitialStates, r \in RandomDraws :
        CreateDigitalTwin(Primary, st, r, TRUE) /\ UNCHANGED ncalls
UpUpdate ==
    \E ms \in Batches, r \in RandomDraws :
        UpdateBegin(Primary, ms, r, TRUE) /\ UNCHANGED ncalls
UpGet == GetDigitalTwin(Primary, TRUE) /\ UNCHANGED ncalls
UpEvict == Expire(TwinKey(Primary)) /\ UNCHANGED ncalls

NextCacheUp == UpCreate \/ UpUpdate \/ UpGet \/ UpEvict \/ Step

SpecCacheUp == Init /\ [][NextCacheUp]_vars

(* The predictor and POST /predict on one received request *)
InitPredictor ==
    /\ Idle
    /\ params \in ParamChoices
    /\ pc = "received"
    /\ call \in [op : {"predict"}, resource_id : {Primary},
                 metrics : SeqsUpTo(Samples, MaxLen),
                 prediction_type : RequestTypes]

NextPredictor ==
    \/ \E r \in RandomDraws, ok \in BOOLEAN : PredictMetrics(r, ok)
    \/ CallPreprocessMetrics
    \/ \E r \in RandomDraws : CallPredictPerformance(r)
    \/ CallDetectAnomalies
    \/ CallPredictCost

SpecPredictor == InitPredictor /\ [][NextPredictor]_vars

----------------------------------------------------------------------------
(* Properties *)

Finished(op) == pc = "idle" /\ call.op = op
TwinOfCall == twins[call.resource_id]

(* C1: update_twin on a resource_id without a twin always returns a twin   *)
(* (never raises), whatever the cache and the time-series store do, and    *)
(* leaves a stored twin with state {status: active}, predictions for all   *)
(* three task types and the accuracy incremented.                          *)
C1_UpdateProvisionsMissingTwin ==
    (Finished("update") /\ ~call.existed) =>
        /\ outcome.kind = "return"
        /\ call.resource_id \in DOMAIN twins
        /\ TwinOfCall.state = DefaultState
        /\ DOMAIN TwinOfCall.predictions = PredictionTypes
        /\ TwinOfCall.accuracy = Min(AccuracyCap, call.before + AccuracyStep)

(* C2: when a time-series write raises during the update of an existing    *)
(* twin, update_twin still returns the twin, and the stored twin holds the *)
(* new predictions and the incremented accuracy as if the write succeeded. *)
C2_PersistenceFailureSwallowed ==
    (call.op = "update" /\ call.existed /\ pc = "idle"
        /\ Len(influx) < Len(call.metrics)) =>
        /\ outcome.kind = "return"
        /\ outcome.value = TwinOfCall
        /\ \E r \in RandomDraws :
              TwinOfCall.predictions = Predictions(params, call.metrics, r).value
        /\ TwinOfCall.accuracy = Min(AccuracyCap, call.before + AccuracyStep)

C2_Witness ==
    /\ Finished("update") /\ call.existed
    /\ Len(call.metrics) = 2 /\ Len(influx) = 1
    /\ outcome.kind = "return"

(* C3: every update leaves the accuracy at min(0.99, previous + 0.001),    *)
(* which is no less than before; the accuracy an update returns lies in    *)
(* [0.75, 0.99]; and no stored twin ever has an accuracy above 0.99.       *)
C3_AccuracyMonotoneCapped ==
    [][ /\ \A id \in DOMAIN twins' :
              /\ twins'[id].accuracy <= AccuracyCap
              /\ twins'[id].accuracy >= AccuracyBase
        /\ (pc = "idle" /\ pc' = "update_store") =>
              LET id == call'.resource_id
                  previous == IF id \in DOMAIN twins
                              THEN twins[id].accuracy ELSE call'.before
              IN  /\ twins'[id].accuracy >= previous
                  /\ twins'[id].accuracy = Min(AccuracyCap, previous + AccuracyStep)
        /\ (pc = "update_return" /\ pc' = "idle") =>
              /\ outcome'.kind = "return"
              /\ outcome'.value.accuracy >= call.before
              /\ outcome'.value.accuracy = Min(AccuracyCap, call.before + AccuracyStep)
              /\ outcome'.value.accuracy >= AccuracyBase
              /\ outcome'.value.accuracy <= AccuracyCap ]_vars

C3_Witness ==
    /\ Finished("update") /\ outcome.kind = "return"
    /\ outcome.value.accuracy = AccuracyCap
    /\ call.before < AccuracyCap
    /\ call.before + AccuracyStep > AccuracyCap

(* C4: a predict request with a task identifier other than performance,    *)
(* anomaly, cost ends with a status-400 error, never a 500 and never a     *)
(* result, and writes nothing to the cache.                                *)
C4_UnknownTypeRejectedWith400 ==
    (outcome.op = "predict" /\ call.prediction_type \notin PredictionTypes) =>
        /\ outcome.kind = "raise"
        /\ outcome.status = 400
        /\ DOMAIN redis = {}

(* C5: for every metrics list predict_performance returns the four         *)
(* predicted values (model output times 100), a confidence in              *)
(* [0.85, 0.95), the horizon "1 hour", and no error field.                 *)
C5_PerformanceVectorAccepted ==
    (outcome.op = "predict_performance") =>
        /\ "error" \notin DOMAIN outcome.value
        /\ DOMAIN outcome.value =
              {"predicted_cpu", "predicted_memory", "predicted_disk",
               "predicted_network", "confidence", "prediction_horizon"}
        /\ outcome.value.predicted_cpu = params.performance[1] * 100
        /\ outcome.value.predicted_memory = params.performance[2] * 100
        /\ outcome.value.predicted_disk = params.performance[3] * 100
        /\ outcome.value.predicted_network = params.performance[4] * 100
        /\ outcome.value.confidence >= 850000
        /\ outcome.value.confidence < 950000
        /\ outcome.value.prediction_horizon = "1 hour"

(* C6: preprocess_metrics yields exactly 40 values: for n < 10 samples,    *)
(* 4*(10-n) zeros followed by the raw fields of the samples in order; for  *)
(* n >= 10, the fields of the last 10 samples in order, each over 100.     *)
C6_FeatureVectorShape ==
    (outcome.op = "preprocess_metrics") =>
        LET v == outcome.value
            ms == call.metrics
            n == Len(ms)
            pad == 4 * (10 - n)
        IN  /\ Len(v) = 40
            /\ n < 10 =>
                  /\ \A i \in 1..pad : v[i] = 0
                  /\ \A j \in 1..n :
                        /\ v[pad + 4 * (j - 1) + 1] = ms[j].cpu * Milli
                        /\ v[pad + 4 * (j - 1) + 2] = ms[j].memory * Milli
                        /\ v[pad + 4 * (j - 1) + 3] = ms[j].disk * Milli
                        /\ v[pad + 4 * (j - 1) + 4] = ms[j].network * Milli
            /\ n >= 10 =>
                  \A j \in 1..10 :
                        /\ 100 * v[4 * (j - 1) + 1] = ms[n - 10 + j].cpu * Milli
                        /\ 100 * v[4 * (j - 1) + 2] = ms[n - 10 + j].memory * Milli
                        /\ 100 * v[4 * (j - 1) + 3] = ms[n - 10 + j].disk * Milli
                        /\ 100 * v[4 * (j - 1) + 4] = ms[n - 10 + j].network * Milli

C6_Witness ==
    /\ outcome.op = "preprocess_metrics"
    /\ Len(call.metrics) = 3
    /\ call.metrics[1] # call.metrics[3]
    /\ outcome.value[29] = call.metrics[1].cpu * Milli

(* C7: on an empty metrics list detect_anomalies returns exactly           *)
(* {anomaly_score: 0.0, is_anomaly: false} and predict_cost returns the    *)
(* zero-cost sentinel; no model's predict runs, nothing raises, and the    *)
(* result has no error field.                                              *)
C7_EmptyMetricsSentinels ==
    /\ (outcome.op = "detect_anomalies" /\ call.metrics = <<>>) =>
          /\ outcome.kind = "return"
          /\ outcome.value = [anomaly_score |-> Rat(0, 1), is_anomaly |-> FALSE]
          /\ invoked = <<>>
    /\ (outcome.op = "predict_cost" /\ call.metrics = <<>>) =>
          /\ outcome.kind = "return"
          /\ outcome.value = [predicted_cost |-> 0]
          /\ invoked = <<>>

C7_Witness ==
    /\ outcome.op = "detect_anomalies"
    /\ call.metrics = <<>>
    /\ outcome.kind = "return"

(* C8: create_twin replaces: afterwards the stored twin of resource_id has *)
(* the given initial state, no predictions and a fresh accuracy in         *)
(* [0.75, 0.95), whatever twin was there before, and the twins of the      *)
(* other resource_ids are as they were.                                    *)
C8_CreateReplaces ==
    [][ (call'.op = "create" /\ ncalls' # ncalls) =>
            LET id == call'.resource_id
            IN  /\ DOMAIN twins' = DOMAIN twins \cup {id}
                /\ twins'[id].resource_id = id
                /\ twins'[id].state = call'.initial_state
                /\ twins'[id].predictions = None
                /\ twins'[id].accuracy >= 750000
                /\ twins'[id].accuracy < 950000
                /\ \A o \in DOMAIN twins \ {id} : twins'[o] = twins[o] ]_vars

C8_Witness ==
    /\ Finished("create") /\ call.existed
    /\ call.predicted
    /\ call.before > 950000
    /\ TwinOfCall.predictions = None
    /\ \E o \in DOMAIN twins : o # call.resource_id

(* C9: in every update_twin the time-series writes come after the new      *)
(* predictions and accuracy are in the store, and there is one write per   *)
(* sample of the batch, in order, with the sample's timestamp and fields   *)
(* and the twin's accuracy after the update.                               *)
C9_WritesAfterCommitOnePerSample ==
    /\ (call.op = "update"
          /\ (influx # <<>> \/ pc \in {"update_store", "update_write"})) =>
          /\ DOMAIN TwinOfCall.predictions = PredictionTypes
          /\ TwinOfCall.accuracy = Min(AccuracyCap, call.before + AccuracyStep)
    /\ (Finished("update") /\ outcome.kind = "return") =>
          /\ Len(influx) = Len(call.metrics)
          /\ \A i \in 1..Len(influx) :
                /\ influx[i].time = call.metrics[i].timestamp
                /\ influx[i].cpu = call.metrics[i].cpu
                /\ influx[i].memory = call.metrics[i].memory
                /\ influx[i].disk = call.metrics[i].disk
                /\ influx[i].network = call.metrics[i].network
                /\ influx[i].accuracy = TwinOfCall.accuracy

(* C10: get-twin returns a record whose state, predictions and accuracy    *)
(* are those of the twin now in the store, in particular after an update.  *)
C10_GetReflectsStore ==
    (outcome.op = "get" /\ outcome.kind = "return"
        /\ call.op = "get" /\ call.resource_id \in DOMAIN twins) =>
        /\ outcome.value.state = TwinOfCall.state
        /\ outcome.value.predictions = TwinOfCall.predictions
        /\ outcome.value.accuracy = TwinOfCall.accuracy

====
